---- MODULE Spec2Model ----
(***************************************************************************)
(* tap-redash (src/tap_redash.py): a Singer tap that fetches the result    *)
(* rows of one Redash query, infers a schema from the first rows and       *)
(* writes either the discovery wrapper or a schema message followed by the *)
(* records.                                                                *)
(*                                                                         *)
(* Two specifications share the variables:                                 *)
(*   SpecInfer  applies Redash._infer_properties to bounded row sequences; *)
(*   Spec       runs main() from construction to return.                   *)
(*                                                                         *)
(* Python values are records [t |-> <python type>, v |-> <literal>]; a row *)
(* (and args.properties) is [t |-> <python type>, items |-> <function>],   *)
(* where items is the dict's key -> value function.  The output sink is    *)
(* assumed to accept every write: the source has no handler for a failing  *)
(* write.  One call of singer.write_records is one event of the output.    *)
(***************************************************************************)
EXTENDS Integers, Sequences, FiniteSets, TLC

VARIABLES
    \* ---- main() ----
    pc,             \* position in main(): start, constructed, resolved, emitted, returned, error
    config,         \* args.config
    discover,       \* args.discover
    properties_arg, \* args.properties
    response,       \* what the Redash endpoint answers to the one GET
    fetches,        \* number of calls of self._session.get
    query_id,       \* Redash.query_id
    data,           \* Redash._data
    schema_wrapper, \* main()'s local schema_wrapper
    stdout,         \* the events of the output sink, in order
    \* ---- _infer_properties applied on its own ----
    ipc,            \* start, done
    sample_rows,    \* the argument of _infer_properties
    inferred,       \* its return value
    scanned         \* the indices i for which sample_rows[i] was read

vars == << pc, config, discover, properties_arg, response, fetches, query_id,
           data, schema_wrapper, stdout, ipc, sample_rows, inferred, scanned >>

mainVars == << pc, config, discover, properties_arg, response, fetches,
               query_id, data, schema_wrapper, stdout >>

inferVars == << ipc, sample_rows, inferred, scanned >>

-----------------------------------------------------------------------------
(* Bounds of the model *)

\* longest row sequence enumerated in full for _infer_properties
MaxShortLen == 3

\* longest row sequence a fetch returns in Spec
MaxDataLen == 2

\* longest run of varied rows placed across index SCAN_LIMIT of a long sequence
MaxWindowLen == 2

\* the literal 100 of MAX_SCAN = min(100, len(sample_rows))
SCAN_LIMIT == 100

-----------------------------------------------------------------------------
(* Python values *)

\* the return value None of _singer_type_for_value
None == "None"

PyNone  == [t |-> "NoneType", v |-> "null"]
PyTrue  == [t |-> "bool",  v |-> "true"]
PyInt   == [t |-> "int",   v |-> "1"]
PyFloat == [t |-> "float", v |-> "10.5"]
PyStr   == [t |-> "str",   v |-> "N/A"]
PyDict  == [t |-> "dict",  v |-> "{}"]
PyList  == [t |-> "list",  v |-> "[]"]

\* what json parsing can put in a field
Values == { PyNone, PyTrue, PyInt, PyFloat, PyStr, PyDict, PyList }

\* isinstance(value, cls): bool is a subclass of int in Python
IsInstance(value, cls) ==
    \/ value.t = cls
    \/ value.t = "bool" /\ cls = "int"

\* Redash._singer_type_for_value
SingerTypeForValue(value) ==
    IF value.t = "NoneType" THEN None
    ELSE IF IsInstance(value, "bool") THEN "boolean"
    ELSE IF IsInstance(value, "int") \/ IsInstance(value, "float") THEN "number"
    ELSE IF IsInstance(value, "str") THEN "string"
    ELSE IF IsInstance(value, "dict") THEN "object"
    ELSE IF IsInstance(value, "list") THEN "array"
    ELSE "string"

-----------------------------------------------------------------------------
(* Rows *)

EmptyItems == [k \in {} |-> PyNone]

\* a row that is a dict with the given items
DictRow(items) == [t |-> "dict", items |-> items]

\* a row that json parsing produced but that is no dict (here: a list)
NonMappingRow == [t |-> "list", items |-> EmptyItems]

FieldNames == {"id", "amt"}

\* rows with the one field amt, one per value, and the empty dict
AmtRows == { DictRow([amt |-> v]) : v \in Values } \cup { DictRow(EmptyItems) }

RowSet ==
    AmtRows \cup { DictRow([id |-> PyInt, amt |-> PyFloat]),
                   DictRow([id |-> PyNone]),
                   NonMappingRow }

RECURSIVE SeqsUpTo(_, _)
SeqsUpTo(S, n) ==
    IF n = 0 THEN { <<>> }
    ELSE LET shorter == SeqsUpTo(S, n - 1)
         IN  shorter \cup { Append(s, x) : s \in shorter, x \in S }

\* n copies of row r
Repeat(r, n) == [i \in 1..n |-> r]

-----------------------------------------------------------------------------
(* Redash._infer_properties *)

Min(a, b) == IF a < b THEN a ELSE b

\* a plausible slip: the scan is not bounded
MaxScanUnbounded(rows) == Len(rows)

\* MAX_SCAN = min(100, len(sample_rows))
MaxScan(rows) == Min(SCAN_LIMIT, Len(rows))

\* the indices (0-based, as in the source) that the loop reads
ScannedIndices(rows) == { i - 1 : i \in 1..MaxScan(rows) }

\* a plausible slip: only the first type seen for a field is kept
ScanRowFirstType(row, union) ==
    IF ~IsInstance(row, "dict") THEN union
    ELSE [k \in DOMAIN union \cup DOMAIN row.items |->
            LET old == IF k \in DOMAIN union THEN union[k] ELSE {}
                new == IF k \in DOMAIN row.items
                          /\ SingerTypeForValue(row.items[k]) # None
                       THEN { SingerTypeForValue(row.items[k]) } ELSE {}
            IN  IF old # {} THEN old ELSE new]

\* the body of the loop: one row folded into union
ScanRow(row, union) ==
    IF ~IsInstance(row, "dict") THEN union
    ELSE [k \in DOMAIN union \cup DOMAIN row.items |->
            LET old == IF k \in DOMAIN union THEN union[k] ELSE {}
                new == IF k \in DOMAIN row.items
                          /\ SingerTypeForValue(row.items[k]) # None
                       THEN { SingerTypeForValue(row.items[k]) } ELSE {}
            IN  old \cup new]

\* (used by the slip ScanRowsBreak below) the first position in lo..hi whose
\* row is no dict, hi + 1 when there is none
FirstNonDict(rows, lo, hi) ==
    LET bad == { i \in lo..hi : ~IsInstance(rows[i], "dict") }
    IN  IF bad = {} THEN hi + 1 ELSE CHOOSE i \in bad : \A j \in bad : i <= j

\* for i in range(MAX_SCAN): the rows at positions lo..hi (1-based) folded into
\* union one after the other, in the order of the loop.  The range is split in
\* halves, the left half first, so that the nesting of the evaluation grows
\* with the logarithm of the number of rows and not with the number itself.
\* (The comparison of left with union changes no value: it has the left half
\* computed before the right half starts, as the loop does.)
RECURSIVE ScanRange(_, _, _, _)
ScanRange(rows, lo, hi, union) ==
    IF lo > hi THEN union
    ELSE IF lo = hi THEN ScanRow(rows[lo], union)
    ELSE LET mid == (lo + hi) \div 2
             left == ScanRange(rows, lo, mid, union)
         IN  IF left = union THEN ScanRange(rows, mid + 1, hi, union)
             ELSE ScanRange(rows, mid + 1, hi, left)

\* a plausible slip: break instead of continue on a row that is no dict
ScanRowsBreak(rows) ==
    ScanRange(rows, 1, FirstNonDict(rows, 1, MaxScan(rows)) - 1, [k \in {} |-> {}])

\* union after the loop of lines 90-99
ScanRows(rows) == ScanRange(rows, 1, MaxScan(rows), [k \in {} |-> {}])

\* the five type tags in ascending lexicographic order
TagOrder == << "array", "boolean", "number", "object", "string" >>

\* sorted(list(type_set))
Sorted(type_set) == SelectSeq(TagOrder, LAMBDA t : t \in type_set)

\* a plausible slip: no default for an empty type set
FieldTypesNoDefault(type_set) == << "null" >> \o Sorted(type_set)

\* ["null"] + sorted(list(type_set)) if type_set else ["null", "string"]
FieldTypes(type_set) ==
    IF type_set # {} THEN << "null" >> \o Sorted(type_set)
    ELSE << "null", "string" >>

\* Redash._infer_properties
InferProperties(rows) ==
    LET union == ScanRows(rows)
    IN  [field \in DOMAIN union |-> [type |-> FieldTypes(union[field])]]

-----------------------------------------------------------------------------
(* Inputs of SpecInfer *)

\* the varied rows placed around index SCAN_LIMIT of a long sequence
WindowRows ==
    { DictRow([amt |-> PyStr]), DictRow([amt |-> PyNone]), DictRow([amt |-> PyTrue]),
      DictRow([id |-> PyInt, amt |-> PyFloat]), NonMappingRow }

\* the row a long sequence repeats before its window
PadRows == { DictRow(EmptyItems), DictRow([id |-> PyInt, amt |-> PyFloat]) }

\* SCAN_LIMIT - 1 or SCAN_LIMIT copies of one row, then a window of varied rows:
\* the window lies across the last scanned index
LongSeqs ==
    { Repeat(p, n) \o w :
        p \in PadRows, n \in { SCAN_LIMIT - 1, SCAN_LIMIT },
        w \in SeqsUpTo(WindowRows, MaxWindowLen) \ { <<>> } }

InferInputs == SeqsUpTo(RowSet, MaxShortLen) \cup LongSeqs

-----------------------------------------------------------------------------
(* Configuration, arguments and the Redash endpoint *)

\* str(): the decimal text of an int, the content of a str
Str(value) == value.v

QueryIds == { [t |-> "str", v |-> "q7"], [t |-> "int", v |-> "42"] }

\* config["key_properties"], when present: a list, or a value that is no list
KeyPropertiesValues ==
    { [t |-> "list", elems |-> << "id" >>], [t |-> "str", elems |-> << >>] }

Configs ==
    { [QUERY_ID |-> q] : q \in QueryIds }
    \cup { [QUERY_ID |-> q, key_properties |-> k] :
             q \in QueryIds, k \in KeyPropertiesValues }

\* the value None of args.properties when --properties is not given
NoProperties == [t |-> "NoneType", items |-> << >>]

\* a schema body that no inference over RowSet produces
SuppliedSchema ==
    [type |-> "object",
     properties |-> [legacy |-> [type |-> << "null", "integer" >>]],
     additionalProperties |-> TRUE]

SuppliedItems(stream) ==
    [stream |-> stream, schema |-> SuppliedSchema,
     key_properties |-> << "legacy" >>, not_stream |-> "1"]

\* args.properties: absent, a non-empty list, or a dict with any subset of the
\* keys stream, schema, key_properties, not_stream
PropertiesArgs ==
    { NoProperties, [t |-> "list", items |-> << "x" >>] }
    \cup { [t |-> "dict", items |-> [k \in K |-> SuppliedItems(s)[k]]] :
             K \in SUBSET { "stream", "schema", "key_properties", "not_stream" },
             s \in { "q7", "other" } }

\* bool(value) for None, a list or a dict
Truthy(value) == value.t # "NoneType" /\ DOMAIN value.items # {}

\* what stands in the way of payload['query_result']['data']['rows'] being a list
BadShapes ==
    { "payload_not_subscriptable", "no_query_result", "no_data", "no_rows",
      "rows_not_list" }

\* the rows a fetch can return in Spec
DataRows ==
    { DictRow([id |-> PyInt, amt |-> PyFloat]), DictRow([amt |-> PyStr]),
      DictRow([amt |-> PyNone]), NonMappingRow }

Responses ==
    { [status |-> s, shape |-> "none", rows |-> << >>] :
        s \in { "transport_error", "http_error", "invalid_json" } }
    \cup { [status |-> "ok", shape |-> sh, rows |-> << >>] : sh \in BadShapes }
    \cup { [status |-> "ok", shape |-> "rows_list", rows |-> r] :
             r \in SeqsUpTo(DataRows, MaxDataLen) }

\* a plausible slip: the rows are not tested for being a list
GetQueryDataNoListCheck(resp) ==
    IF resp.status \in { "transport_error", "http_error" }
    THEN [raised |-> "RequestException", rows |-> << >>]
    ELSE IF resp.status = "invalid_json"
    THEN [raised |-> "ValueError", rows |-> << >>]
    ELSE IF resp.shape \in { "no_query_result", "no_data", "no_rows" }
    THEN [raised |-> "KeyError", rows |-> << >>]
    ELSE IF resp.shape = "payload_not_subscriptable"
    THEN [raised |-> "TypeError", rows |-> << >>]
    ELSE [raised |-> None, rows |-> resp.rows]

\* Redash._get_query_data: the exception it raises (None when it returns) and
\* the rows it returns
GetQueryData(resp) ==
    IF resp.status \in { "transport_error", "http_error" }
    THEN [raised |-> "RequestException", rows |-> << >>]
    ELSE IF resp.status = "invalid_json"
    THEN [raised |-> "ValueError", rows |-> << >>]
    ELSE IF resp.shape \in { "no_query_result", "no_data", "no_rows" }
    THEN [raised |-> "KeyError", rows |-> << >>]
    ELSE IF resp.shape \in { "payload_not_subscriptable", "rows_not_list" }
    THEN [raised |-> "TypeError", rows |-> << >>]
    ELSE [raised |-> None, rows |-> resp.rows]

-----------------------------------------------------------------------------
(* Redash.generate_schema_wrapper *)

\* key_props = self._config.get("key_properties", []), [] unless a list
KeyProps(cfg) ==
    IF "key_properties" \in DOMAIN cfg /\ cfg["key_properties"].t = "list"
    THEN cfg["key_properties"].elems
    ELSE << >>

\* properties = {} if not self._data else self._infer_properties(self._data)
WrapperProperties(rows) ==
    IF rows = << >> THEN [k \in {} |-> [type |-> << >>]] ELSE InferProperties(rows)

GenerateSchemaWrapper(rows, qid, cfg) ==
    [t |-> "dict",
     items |-> [stream |-> qid,
                schema |-> [type |-> "object",
                            properties |-> WrapperProperties(rows),
                            additionalProperties |-> FALSE],
                key_properties |-> KeyProps(cfg)]]

-----------------------------------------------------------------------------
(* main() *)

\* not isinstance(schema_wrapper, dict) or "stream" not in schema_wrapper
\* or "schema" not in schema_wrapper
InvalidWrapper(w) ==
    \/ ~IsInstance(w, "dict")
    \/ "stream" \notin DOMAIN w.items
    \/ "schema" \notin DOMAIN w.items

\* a plausible slip: the keys an invalid supplied dict does have are merged
\* into the regenerated artifact
ResolvedWrapperMerge(arg, rows, qid, cfg) ==
    LET fresh == GenerateSchemaWrapper(rows, qid, cfg)
        first == IF Truthy(arg) THEN arg ELSE fresh
    IN  IF ~InvalidWrapper(first) THEN first
        ELSE IF ~IsInstance(first, "dict") THEN fresh
        ELSE [t |-> "dict",
              items |-> [k \in DOMAIN fresh.items |->
                           IF k \in DOMAIN first.items THEN first.items[k]
                           ELSE fresh.items[k]]]

\* a plausible slip: the supplied artifact is never used
ResolvedWrapperAlwaysFresh(arg, rows, qid, cfg) ==
    GenerateSchemaWrapper(rows, qid, cfg)

\* lines 156-160: the artifact main() hands to output_to_stream
ResolvedWrapper(arg, rows, qid, cfg) ==
    LET first == IF Truthy(arg) THEN arg ELSE GenerateSchemaWrapper(rows, qid, cfg)
    IN  IF InvalidWrapper(first) THEN GenerateSchemaWrapper(rows, qid, cfg)
        ELSE first

\* singer.write_schema(stream_name, schema, key_props)
SchemaMessage(stream_name, w) ==
    [op |-> "write_schema", stream |-> stream_name, schema |-> w.items["schema"],
     key_properties |-> IF "key_properties" \in DOMAIN w.items
                        THEN w.items["key_properties"] ELSE << >>]

\* singer.write_records(stream_name, self._data)
RecordsMessage(stream_name, rows) ==
    [op |-> "write_records", stream |-> stream_name, records |-> rows]

\* a plausible slip: the records are written before the schema
OutputToStreamRecordsFirst(stream_name, w, rows) ==
    (IF rows # << >> THEN << RecordsMessage(stream_name, rows) >> ELSE << >>)
    \o << SchemaMessage(stream_name, w) >>

\* Redash.output_to_stream: the events it appends to the output
OutputToStreamEvents(stream_name, w, rows) ==
    << SchemaMessage(stream_name, w) >>
    \o (IF rows # << >> THEN << RecordsMessage(stream_name, rows) >> ELSE << >>)

\* print(json.dumps(wrapper, indent=2))
PrintEvent(w) == [op |-> "print", doc |-> w.items]

FlushEvent == [op |-> "flush"]

\* rdash = Redash(): __init__ sets query_id, then fetches once
Construct ==
    /\ pc = "start"
    /\ query_id' = Str(config["QUERY_ID"])
    /\ fetches' = fetches + 1
    /\ LET r == GetQueryData(response)
       IN  IF r.raised # None
           THEN pc' = "error" /\ data' = data
           ELSE pc' = "constructed" /\ data' = r.rows
    /\ UNCHANGED << config, discover, properties_arg, response, schema_wrapper,
                    stdout >>
    /\ UNCHANGED inferVars

\* a plausible slip: discovery mode goes on to emit the stream
DiscoverEmitting ==
    /\ pc = "constructed"
    /\ discover
    /\ LET w == GenerateSchemaWrapper(data, query_id, config)
       IN  stdout' = Append(stdout, PrintEvent(w))
                     \o OutputToStreamEvents(w.items["stream"], w, data)
    /\ pc' = "returned"
    /\ UNCHANGED << config, discover, properties_arg, response, fetches, query_id,
                    data, schema_wrapper >>
    /\ UNCHANGED inferVars

\* if args.discover: rdash.do_discover(); return
Discover ==
    /\ pc = "constructed"
    /\ discover
    /\ stdout' = Append(stdout, PrintEvent(GenerateSchemaWrapper(data, query_id, config)))
    /\ pc' = "returned"
    /\ UNCHANGED << config, discover, properties_arg, response, fetches, query_id,
                    data, schema_wrapper >>
    /\ UNCHANGED inferVars

\* lines 156-160
ResolveSchemaWrapper ==
    /\ pc = "constructed"
    /\ ~discover
    /\ schema_wrapper' = ResolvedWrapper(properties_arg, data, query_id, config)
    /\ pc' = "resolved"
    /\ UNCHANGED << config, discover, properties_arg, response, fetches, query_id,
                    data, stdout >>
    /\ UNCHANGED inferVars

\* rdash.output_to_stream(schema_wrapper["stream"], schema_wrapper); the
\* subscripts ["stream"] and ["schema"] raise when the key is missing
OutputToStream ==
    /\ pc = "resolved"
    /\ IF InvalidWrapper(schema_wrapper)
       THEN pc' = "error" /\ stdout' = stdout
       ELSE /\ stdout' = stdout \o OutputToStreamEvents(schema_wrapper.items["stream"],
                                                         schema_wrapper, data)
            /\ pc' = "emitted"
    /\ UNCHANGED << config, discover, properties_arg, response, fetches, query_id,
                    data, schema_wrapper >>
    /\ UNCHANGED inferVars

\* sys.stdout.flush(), then main() returns
Flush ==
    /\ pc = "emitted"
    /\ stdout' = Append(stdout, FlushEvent)
    /\ pc' = "returned"
    /\ UNCHANGED << config, discover, properties_arg, response, fetches, query_id,
                    data, schema_wrapper >>
    /\ UNCHANGED inferVars

\* the state before main() is entered
Init ==
    /\ pc = "start"
    /\ config \in Configs
    /\ discover \in BOOLEAN
    /\ properties_arg \in PropertiesArgs
    /\ response \in Responses
    /\ fetches = 0
    /\ query_id = ""
    /\ data = << >>
    /\ schema_wrapper = NoProperties
    /\ stdout = << >>
    /\ ipc = "idle"
    /\ sample_rows = << >>
    /\ inferred = << >>
    /\ scanned = {}

Next ==
    \/ Construct
    \/ Discover
    \/ ResolveSchemaWrapper
    \/ OutputToStream
    \/ Flush

Spec == Init /\ [][Next]_vars

-----------------------------------------------------------------------------
(* _infer_properties applied to a row sequence *)

CallInferProperties ==
    /\ ipc = "start"
    /\ inferred' = InferProperties(sample_rows)
    /\ scanned' = ScannedIndices(sample_rows)
    /\ ipc' = "done"
    /\ UNCHANGED sample_rows
    /\ UNCHANGED mainVars

InitInfer ==
    /\ ipc = "start"
    /\ sample_rows \in InferInputs
    /\ inferred = << >>
    /\ scanned = {}
    /\ pc = "idle"
    /\ config = [QUERY_ID |-> [t |-> "str", v |-> "q7"]]
    /\ discover = FALSE
    /\ properties_arg = NoProperties
    /\ response = [status |-> "ok", shape |-> "rows_list", rows |-> << >>]
    /\ fetches = 0
    /\ query_id = ""
    /\ data = << >>
    /\ schema_wrapper = NoProperties
    /\ stdout = << >>

NextInfer == CallInferProperties

SpecInfer == InitInfer /\ [][NextInfer]_vars

-----------------------------------------------------------------------------
(* What the claims speak of, stated without the operators of the model *)

\* the type tag the claims give a non-null value
ClaimTag(value) ==
    CASE value.t = "bool" -> "boolean"
      [] value.t \in { "int", "float" } -> "number"
      [] value.t = "str" -> "string"
      [] value.t = "dict" -> "object"
      [] value.t = "list" -> "array"

\* the positions (1-based) of the scanned prefix of rows
PrefixPositions(rows) == 1..Min(SCAN_LIMIT, Len(rows))

\* the scanned positions whose row is a mapping that has field f
PositionsWith(rows, f) ==
    { i \in PrefixPositions(rows) : rows[i].t = "dict" /\ f \in DOMAIN rows[i].items }

\* the fields that appear in at least one scanned mapping row
AppearingFields(rows) == { f \in FieldNames : PositionsWith(rows, f) # {} }

\* the type tags of the non-null values of f in the scanned rows
ObservedTags(rows, f) ==
    { ClaimTag(rows[i].items[f]) :
        i \in { j \in PositionsWith(rows, f) : rows[j].items[f].t # "NoneType" } }

ToSet(seq) == { seq[i] : i \in DOMAIN seq }

\* rows with the rows at positions i and i + 1 exchanged
Swap(rows, i) ==
    [j \in 1..Len(rows) |->
       IF j = i THEN rows[i + 1] ELSE IF j = i + 1 THEN rows[i] ELSE rows[j]]

\* the result is the same with any two neighbouring scanned rows exchanged
\* (such exchanges generate every permutation of the scanned rows; exchanging
\* two equal rows leaves the sequence as it is)
OrderIndependent ==
    \A i \in PrefixPositions(sample_rows) :
        (i + 1 \in PrefixPositions(sample_rows) /\ sample_rows[i] # sample_rows[i + 1])
        => InferProperties(Swap(sample_rows, i)) = inferred

-----------------------------------------------------------------------------
(* C1 *)

\* C1 as stated: for every field f of a scanned mapping row, the declared
\* types of f, as a set, are "null" and the tags of the non-null values of f
\* in the scanned rows.  (Fails for a field seen only with null.)
C1_TypeUnionEveryField ==
    ipc = "done" =>
        \A f \in AppearingFields(sample_rows) :
            /\ f \in DOMAIN inferred
            /\ ToSet(inferred[f].type) = { "null" } \cup ObservedTags(sample_rows, f)

\* C1 amended: for every field f of a scanned mapping row that has at least one
\* non-null value in the scanned rows, the declared types of f, as a set, are
\* "null" and the tags of those values (a boolean tagged boolean, not number);
\* for a field seen only with null the set is {"null", "string"}; and the
\* result is the same for every permutation of the scanned rows.
C1_TypeUnion ==
    ipc = "done" =>
        /\ \A f \in AppearingFields(sample_rows) :
              /\ f \in DOMAIN inferred
              /\ ToSet(inferred[f].type) =
                    IF ObservedTags(sample_rows, f) # {}
                    THEN { "null" } \cup ObservedTags(sample_rows, f)
                    ELSE { "null", "string" }
        /\ OrderIndependent

\* a field is a boolean in one scanned row and of another type in a later one
C1_Witness ==
    /\ ipc = "done"
    /\ Len(sample_rows) >= 2
    /\ sample_rows[1] = DictRow([amt |-> PyTrue])
    /\ "boolean" \in ObservedTags(sample_rows, "amt")
    /\ Cardinality(ObservedTags(sample_rows, "amt")) = 2
    /\ inferred["amt"].type[1] = "null"

-----------------------------------------------------------------------------
(* C2 *)

\* the rows that may follow the scanned prefix
Tails == SeqsUpTo(WindowRows, 1)

\* C2: a sequence that agrees with sample_rows on the first SCAN_LIMIT rows
\* yields the same properties, whatever follows those rows, and no row at
\* index SCAN_LIMIT or beyond is read.
C2_BoundedScan ==
    ipc = "done" =>
        /\ \A i \in scanned : i < SCAN_LIMIT
        /\ Len(sample_rows) >= SCAN_LIMIT =>
              \A tail \in Tails :
                  InferProperties(SubSeq(sample_rows, 1, SCAN_LIMIT) \o tail) = inferred

\* a row past the scanned prefix has a field that no scanned row has
C2_Witness ==
    /\ ipc = "done"
    /\ Len(sample_rows) > SCAN_LIMIT
    /\ \E i \in (SCAN_LIMIT + 1)..Len(sample_rows) :
          /\ sample_rows[i].t = "dict"
          /\ \E f \in DOMAIN sample_rows[i].items : f \notin DOMAIN inferred

-----------------------------------------------------------------------------
(* C8 *)

\* C8: every declared type list starts with "null" and goes on with at least
\* one type tag; for a field seen only with null it is ["null", "string"].
C8_NeverOnlyNull ==
    ipc = "done" =>
        \A f \in DOMAIN inferred :
            LET types == inferred[f].type
            IN  /\ Len(types) >= 2
                /\ types[1] = "null"
                /\ \A j \in 2..Len(types) : types[j] \in ToSet(TagOrder)
                /\ ObservedTags(sample_rows, f) = {} => types = << "null", "string" >>

\* the field amt is null in each of two scanned rows
C8_Witness ==
    /\ ipc = "done"
    /\ sample_rows = << DictRow([amt |-> PyNone]), DictRow([amt |-> PyNone]) >>
    /\ inferred["amt"].type = << "null", "string" >>

-----------------------------------------------------------------------------
(* C9 *)

IsMapping(row) == row.t = "dict"

\* C9: the result is the result over the scanned prefix with the rows that
\* are no mapping removed, and such rows take their position in the scan.
C9_NonMappingSkipped ==
    ipc = "done" =>
        /\ inferred =
              InferProperties(
                  SelectSeq(SubSeq(sample_rows, 1, Min(SCAN_LIMIT, Len(sample_rows))),
                            IsMapping))
        /\ scanned = { i - 1 : i \in PrefixPositions(sample_rows) }

\* a row that is no mapping stands before a scanned mapping row whose field
\* is in the result
C9_Witness ==
    /\ ipc = "done"
    /\ \E i, j \in PrefixPositions(sample_rows) :
          /\ i < j
          /\ ~IsMapping(sample_rows[i])
          /\ IsMapping(sample_rows[j])
          /\ "amt" \in DOMAIN sample_rows[j].items
          /\ \A h \in 1..(i - 1) : "amt" \notin DOMAIN sample_rows[h].items
          /\ "amt" \in DOMAIN inferred

-----------------------------------------------------------------------------
(* The output of a run, as the claims speak of it *)

\* the events of the output that are messages or documents (all but flushes)
Written == SelectSeq(stdout, LAMBDA e : e.op # "flush")

\* the positions of the output whose event is a call of op
PositionsOf(op) == { i \in DOMAIN stdout : stdout[i].op = op }

\* the run has been through output_to_stream
Emitted == ~discover /\ pc \in { "emitted", "returned" }

\* the fetch fails: a transport error, a non-2xx answer, invalid JSON, no
\* nested rows structure, or rows that are no sequence
FetchFails ==
    \/ response.status \in { "transport_error", "http_error", "invalid_json" }
    \/ response.shape \in BadShapes

\* the configured query identifier, as a string
ConfiguredQueryId == Str(config["QUERY_ID"])

\* the supplied artifact is a mapping with a stream identifier and a schema body
SuppliedValid ==
    /\ properties_arg.t = "dict"
    /\ { "stream", "schema" } \subseteq DOMAIN properties_arg.items

\* the artifact generate_schema_wrapper builds from the fetched rows
FreshArtifact == GenerateSchemaWrapper(response.rows, ConfiguredQueryId, config).items

-----------------------------------------------------------------------------
(* C3 *)

\* C3: a sync-mode run that has emitted has written one schema message first
\* and then one records message with all the rows when there are rows, none
\* when there are none; at no point does a records message stand before the
\* schema message, and there is never more than one of either.
C3_SchemaThenRecords ==
    ~discover =>
        /\ Cardinality(PositionsOf("write_schema")) <= 1
        /\ Cardinality(PositionsOf("write_records")) <= 1
        /\ \A r \in PositionsOf("write_records") :
              \E m \in PositionsOf("write_schema") : m < r
        /\ Emitted =>
              /\ Len(Written) = (IF response.rows # << >> THEN 2 ELSE 1)
              /\ Written[1].op = "write_schema"
              /\ response.rows # << >> =>
                    /\ Written[2].op = "write_records"
                    /\ Written[2].records = response.rows

\* a sync-mode run over two rows has returned
C3_Witness ==
    /\ ~discover
    /\ pc = "returned"
    /\ Len(response.rows) = 2
    /\ Len(Written) = 2
    /\ Written[2].records = response.rows

-----------------------------------------------------------------------------
(* C4 *)

\* C4: in sync mode, with a supplied artifact that is no mapping or lacks the
\* stream identifier or the schema body, the stream id, schema and key
\* properties emitted are those of the freshly generated artifact, and the
\* run does not end in an error once the rows are fetched.
C4_InvalidSuppliedDiscarded ==
    (~discover /\ ~SuppliedValid /\ ~FetchFails) =>
        /\ pc # "error"
        /\ Emitted =>
              /\ Written[1].op = "write_schema"
              /\ Written[1].stream = FreshArtifact["stream"]
              /\ Written[1].schema = FreshArtifact["schema"]
              /\ Written[1].key_properties = FreshArtifact["key_properties"]
              /\ \A r \in PositionsOf("write_records") :
                    stdout[r].stream = FreshArtifact["stream"]

\* a supplied dict with a stream identifier and key properties but no schema
\* body was discarded and the run has returned
C4_Witness ==
    /\ ~discover
    /\ pc = "returned"
    /\ properties_arg.t = "dict"
    /\ DOMAIN properties_arg.items = { "stream", "key_properties" }
    /\ properties_arg.items["stream"] # ConfiguredQueryId
    /\ response.rows # << >>
    /\ Written[1].stream = ConfiguredQueryId

-----------------------------------------------------------------------------
(* C5 *)

\* C5: when main() has returned after writing output, the last event of the
\* output is an explicit flush.  (Fails in discovery mode.)
C5_FlushOnEveryExit ==
    (pc = "returned" /\ stdout # << >>) => stdout[Len(stdout)].op = "flush"

-----------------------------------------------------------------------------
(* C6 *)

\* C6: in discovery mode no schema message and no records message is ever
\* written and output_to_stream is never entered; a run that has returned has
\* written the one document {stream, schema, key_properties} built from the
\* fetched rows, whatever was supplied as properties.
C6_DiscoveryOneDocument ==
    discover =>
        /\ PositionsOf("write_schema") = {}
        /\ PositionsOf("write_records") = {}
        /\ pc \notin { "resolved", "emitted" }
        /\ Len(Written) <= 1
        /\ pc = "returned" =>
              /\ Len(Written) = 1
              /\ Written[1].op = "print"
              /\ Written[1].doc =
                    [stream |-> ConfiguredQueryId,
                     schema |-> [type |-> "object",
                                 properties |-> InferProperties(response.rows),
                                 additionalProperties |-> FALSE],
                     key_properties |-> FreshArtifact["key_properties"]]

\* a discovery run with a valid supplied artifact and rows has returned
C6_Witness ==
    /\ discover
    /\ pc = "returned"
    /\ SuppliedValid
    /\ response.rows # << >>
    /\ Len(stdout) = 1

-----------------------------------------------------------------------------
(* C7 *)

\* the events of the output that carry a stream id, with that id
StreamIds ==
    { stdout[i].stream : i \in PositionsOf("write_schema") \cup PositionsOf("write_records") }
    \cup { stdout[i].doc["stream"] : i \in PositionsOf("print") }

\* C7 as stated: every stream id of the output is the configured query
\* identifier.  (Fails for a valid supplied artifact with another stream id.)
C7_StreamIdIsQueryId ==
    \A id \in StreamIds : id = ConfiguredQueryId

\* C7 amended: every stream id of the output is the configured query
\* identifier in discovery mode and in sync mode without a valid supplied
\* artifact; in sync mode with a valid supplied artifact the schema message
\* and the records message carry that artifact's stream identifier.
C7_StreamIdOfArtifact ==
    \A id \in StreamIds :
        id = IF ~discover /\ SuppliedValid THEN properties_arg.items["stream"]
             ELSE ConfiguredQueryId

\* a sync run with a valid supplied artifact of another stream has returned
C7_Witness ==
    /\ ~discover
    /\ pc = "returned"
    /\ SuppliedValid
    /\ properties_arg.items["stream"] # ConfiguredQueryId
    /\ Len(Written) = 2
    /\ Written[2].stream = properties_arg.items["stream"]

-----------------------------------------------------------------------------
(* C10 *)

\* C10: when the fetch fails it is attempted once, the run ends in the error
\* state and nothing is ever written to the output.
C10_FetchFailureWritesNothing ==
    FetchFails =>
        /\ stdout = << >>
        /\ fetches <= 1
        /\ pc \in { "start", "error" }
        /\ pc = "error" => fetches = 1

\* the rows of the payload were no list and the run has ended in error
C10_Witness ==
    /\ pc = "error"
    /\ response.shape = "rows_not_list"
    /\ fetches = 1

====
